---- MODULE Spec2Model ----
(***************************************************************************)
(* Model of the lrclib filter (src/src/bin/filter.rs): one streaming pass  *)
(* over the input table that applies the quality gate, the language        *)
(* classifier, the lyric fingerprint dedup and the metadata dedup, and     *)
(* writes the surviving rows to the output table.                          *)
(*                                                                         *)
(* A text is a sequence of Unicode code points (Rust `char`s); its         *)
(* `len()` is the length of its UTF-8 encoding.  The Unicode classes of    *)
(* the standard library and of the regex crate (\w, \s, \d, lowercase)     *)
(* are given for the blocks the texts of this model are written in:        *)
(* ASCII, Latin-1/Latin Extended, Cyrillic, Kana, Hangul syllables, CJK    *)
(* and full-width brackets.                                                *)
(*                                                                         *)
(* The builder (src/src/main.rs) is modelled beside it: the fetch tasks,   *)
(* the channel, the database writer and the compression step.              *)
(***************************************************************************)
EXTENDS Integers, Sequences, FiniteSets, TLC

VARIABLES
    consumed,    \* ids of the rows the cursor `rows` has yielded so far
    i,           \* the row counter `i`
    fp_seen,     \* HashSet of lyric fingerprints
    meta_seen,   \* HashMap meta_key -> (id, line_count)
    dst,         \* table `lyrics` of the output connection: rows (id, lang)
    stats,       \* the five counters quality, lang, fp_dedup, meta_dedup, kept
    in_txn,      \* TRUE while a transaction is open on dst
    committed,   \* content of dst as of the last COMMIT
    pc,          \* "scan" inside the while loop, "done" after the final COMMIT
    submitted,   \* history: (key, id, line_count) of every record that reached step 4
    written,     \* history: ids of every row ever INSERTed into dst
    probe,       \* a stand-alone call of classify_lang: its argument and result
    repos,       \* builder: the video ids the stream has not yet started a task for
    fetching,    \* builder: the video ids whose fetch task is in flight
    channel,     \* builder: the records in the mpsc channel, oldest first
    tx_dropped,  \* builder: TRUE once main has dropped the sender `tx`
    temp_buffer, \* builder: the writer's `temp_buffer`
    count,       \* builder: the writer's `count`
    lyrics_db,   \* builder: the rows committed to table `lyrics` of lyrics.db
    writer_pc,   \* builder: "recv" in the receive loop, "flush" after it, "done"
    main_pc,     \* builder: "fetch", "await" (db_thread), "compress", "done"
    sent,        \* history: the records whose send returned Ok
    batches,     \* history: the number of rows of each committed transaction
    compressed   \* builder: the content of lyrics.db read by the compression

filter_vars == <<consumed, i, fp_seen, meta_seen, dst, stats, in_txn, committed,
                 pc, submitted, written>>

builder_vars == <<repos, fetching, channel, tx_dropped, temp_buffer, count,
                  lyrics_db, writer_pc, main_pc, sent, batches, compressed>>

vars == <<filter_vars, probe, builder_vars>>

----------------------------------------------------------------------------
(* Bounds of the model.                                                    *)

\* the cursor yields at most MaxRows rows before it is exhausted
MaxRows == 5

\* a probe text is made of at most MaxBlocks runs of one char
MaxBlocks == 2

\* the builder has at most MaxVideos videos left to fetch
MaxVideos == 3

----------------------------------------------------------------------------
(* Text primitives.                                                        *)

\* Option<T>: None is the empty tuple and Some(x) the tuple of x
None == <<>>

Some(x) == <<x>>

\* the sequence f as a tuple of its elements, each evaluated once
Tuple(f) == SubSeq(f, 1, Len(f))

\* s repeated n times
Rep(s, n) == Tuple([k \in 1..(Len(s) * n) |-> s[((k - 1) % Len(s)) + 1]])

\* n copies of line joined by '\n'
Lines(line, n) ==
    Tuple([k \in 1..(n * (Len(line) + 1) - 1) |->
              IF k % (Len(line) + 1) = 0 THEN 10 ELSE line[k % (Len(line) + 1)]])

\* number of bytes of the UTF-8 encoding of one char
Utf8Len(cp) == IF cp < 128 THEN 1 ELSE IF cp < 2048 THEN 2 ELSE IF cp < 65536 THEN 3 ELSE 4

\* str::len(): length in bytes, the sum of Utf8Len over the chars
ByteLen(s) ==
    Len(s) + Cardinality({k \in 1..Len(s) : s[k] >= 128})
           + Cardinality({k \in 1..Len(s) : s[k] >= 2048})
           + Cardinality({k \in 1..Len(s) : s[k] >= 65536})

\* char::is_whitespace and the regex class \s (Unicode White_Space)
IsSpace(cp) ==
    \/ (cp >= 9 /\ cp <= 13)
    \/ cp = 32 \/ cp = 133 \/ cp = 160 \/ cp = 5760
    \/ (cp >= 8192 /\ cp <= 8202)
    \/ cp = 8232 \/ cp = 8233 \/ cp = 8239 \/ cp = 8287 \/ cp = 12288

\* the regex class \d (Unicode Nd): ASCII and Arabic-Indic digits, full-width digits
IsDigit(cp) ==
    \/ (cp >= 48 /\ cp <= 57)
    \/ (cp >= 1632 /\ cp <= 1641)
    \/ (cp >= 65296 /\ cp <= 65305)

\* the regex class \w (Alphabetic, Mark, Nd, Pc, Join_Control)
IsWord(cp) ==
    \/ IsDigit(cp)
    \/ (cp >= 65 /\ cp <= 90) \/ (cp >= 97 /\ cp <= 122) \/ cp = 95
    \/ cp = 170 \/ cp = 181 \/ cp = 186
    \/ (cp >= 192 /\ cp <= 591 /\ cp # 215 /\ cp # 247)
    \/ (cp >= 1024 /\ cp <= 1279 /\ cp # 1154)
    \/ (cp >= 12353 /\ cp <= 12438) \/ cp = 12441 \/ cp = 12442
    \/ (cp >= 12445 /\ cp <= 12447)
    \/ (cp >= 12449 /\ cp <= 12538) \/ (cp >= 12540 /\ cp <= 12543)
    \/ (cp >= 19968 /\ cp <= 40959)
    \/ (cp >= 44032 /\ cp <= 55203)

\* char::to_lowercase
LowerChar(cp) ==
    IF cp >= 65 /\ cp <= 90 THEN cp + 32
    ELSE IF cp >= 192 /\ cp <= 222 /\ cp # 215 THEN cp + 32
    ELSE IF cp >= 1040 /\ cp <= 1071 THEN cp + 32
    ELSE IF cp >= 1024 /\ cp <= 1039 THEN cp + 80
    ELSE cp

\* str::to_lowercase
to_lowercase(s) == Tuple([k \in 1..Len(s) |-> LowerChar(s[k])])

\* str::trim
RECURSIVE TrimStart(_, _)
TrimStart(s, k) == IF k <= Len(s) /\ IsSpace(s[k]) THEN TrimStart(s, k + 1) ELSE k

RECURSIVE TrimEnd(_, _)
TrimEnd(s, k) == IF k >= 1 /\ IsSpace(s[k]) THEN TrimEnd(s, k - 1) ELSE k

trim(s) == SubSeq(s, TrimStart(s, 1), TrimEnd(s, Len(s)))

----------------------------------------------------------------------------
(* Language classification.                                                *)

\* the classifier's length floor, in bytes
MIN_LANG_LEN == 30

\* Japanese and Korean chars that decide the language
JA_MIN == 10

KO_MIN == 10

\* excluded-script chars above which the text is rejected
EXCLUDE_MAX == 50

\* Latin chars needed for English
LATIN_MIN == 30

IsJa(cp) == (cp >= 12352 /\ cp <= 12447) \/ (cp >= 12448 /\ cp <= 12543)

IsKo(cp) == cp >= 44032 /\ cp <= 55215

IsLatin(cp) ==
    (cp >= 65 /\ cp <= 90) \/ (cp >= 97 /\ cp <= 122) \/ (cp >= 192 /\ cp <= 591)

IsExclude(cp) ==
    \/ (cp >= 1536 /\ cp <= 1791) \/ (cp >= 1024 /\ cp <= 1279)
    \/ (cp >= 2304 /\ cp <= 2431) \/ (cp >= 3584 /\ cp <= 3711)

\* the counters before the first char; returned: the loop was left by a
\* return statement, whose value is ret
LangStart == [ja |-> 0, ko |-> 0, latin |-> 0, exclude |-> 0,
              returned |-> FALSE, ret |-> None]

\* the excluded count compared with >= in place of >
LangStep_excluded_early(st, cp) ==
    IF st.returned THEN st
    ELSE IF IsJa(cp)
         THEN IF st.ja + 1 >= JA_MIN
              THEN [st EXCEPT !.ja = @ + 1, !.returned = TRUE, !.ret = Some("ja")]
              ELSE [st EXCEPT !.ja = @ + 1]
    ELSE IF IsKo(cp)
         THEN IF st.ko + 1 >= KO_MIN
              THEN [st EXCEPT !.ko = @ + 1, !.returned = TRUE, !.ret = Some("ko")]
              ELSE [st EXCEPT !.ko = @ + 1]
    ELSE IF IsLatin(cp)
         THEN [st EXCEPT !.latin = @ + 1]
    ELSE IF IsExclude(cp)
         THEN IF st.exclude + 1 >= EXCLUDE_MAX
              THEN [st EXCEPT !.exclude = @ + 1, !.returned = TRUE, !.ret = None]
              ELSE [st EXCEPT !.exclude = @ + 1]
    ELSE st

\* the early exit on the excluded scripts returning a tag of its own
LangStep_excluded_tag(st, cp) ==
    IF st.returned THEN st
    ELSE IF IsJa(cp)
         THEN IF st.ja + 1 >= JA_MIN
              THEN [st EXCEPT !.ja = @ + 1, !.returned = TRUE, !.ret = Some("ja")]
              ELSE [st EXCEPT !.ja = @ + 1]
    ELSE IF IsKo(cp)
         THEN IF st.ko + 1 >= KO_MIN
              THEN [st EXCEPT !.ko = @ + 1, !.returned = TRUE, !.ret = Some("ko")]
              ELSE [st EXCEPT !.ko = @ + 1]
    ELSE IF IsLatin(cp)
         THEN [st EXCEPT !.latin = @ + 1]
    ELSE IF IsExclude(cp)
         THEN IF st.exclude + 1 > EXCLUDE_MAX
              THEN [st EXCEPT !.exclude = @ + 1, !.returned = TRUE, !.ret = Some("other")]
              ELSE [st EXCEPT !.exclude = @ + 1]
    ELSE st

\* the Japanese count compared with > in place of >=
LangStep_ja_late(st, cp) ==
    IF st.returned THEN st
    ELSE IF IsJa(cp)
         THEN IF st.ja + 1 > JA_MIN
              THEN [st EXCEPT !.ja = @ + 1, !.returned = TRUE, !.ret = Some("ja")]
              ELSE [st EXCEPT !.ja = @ + 1]
    ELSE IF IsKo(cp)
         THEN IF st.ko + 1 >= KO_MIN
              THEN [st EXCEPT !.ko = @ + 1, !.returned = TRUE, !.ret = Some("ko")]
              ELSE [st EXCEPT !.ko = @ + 1]
    ELSE IF IsLatin(cp)
         THEN [st EXCEPT !.latin = @ + 1]
    ELSE IF IsExclude(cp)
         THEN IF st.exclude + 1 > EXCLUDE_MAX
              THEN [st EXCEPT !.exclude = @ + 1, !.returned = TRUE, !.ret = None]
              ELSE [st EXCEPT !.exclude = @ + 1]
    ELSE st

\* one iteration of the for loop on char cp; once the function has returned
\* the chars that follow are not looked at
LangStep(st, cp) ==
    IF st.returned THEN st
    ELSE IF IsJa(cp)
         THEN IF st.ja + 1 >= JA_MIN
              THEN [st EXCEPT !.ja = @ + 1, !.returned = TRUE, !.ret = Some("ja")]
              ELSE [st EXCEPT !.ja = @ + 1]
    ELSE IF IsKo(cp)
         THEN IF st.ko + 1 >= KO_MIN
              THEN [st EXCEPT !.ko = @ + 1, !.returned = TRUE, !.ret = Some("ko")]
              ELSE [st EXCEPT !.ko = @ + 1]
    ELSE IF IsLatin(cp)
         THEN [st EXCEPT !.latin = @ + 1]
    ELSE IF IsExclude(cp)
         THEN IF st.exclude + 1 > EXCLUDE_MAX
              THEN [st EXCEPT !.exclude = @ + 1, !.returned = TRUE, !.ret = None]
              ELSE [st EXCEPT !.exclude = @ + 1]
    ELSE st

\* the iterations of the for loop on the chars lo..hi of s, in order: first
\* those on lo..mid, then, unless the function has returned, those on mid+1..hi
RECURSIVE ScanLang(_, _, _, _)
ScanLang(s, lo, hi, st) ==
    IF lo > hi THEN st
    ELSE IF lo = hi THEN LangStep(st, s[lo])
    ELSE LET mid == (lo + hi) \div 2
             left == ScanLang(s, lo, mid, st)
         IN IF left.returned THEN left ELSE ScanLang(s, mid + 1, hi, left)

classify_lang(text_no_ts) ==
    IF ByteLen(text_no_ts) < MIN_LANG_LEN THEN None
    ELSE LET st == ScanLang(text_no_ts, 1, Len(text_no_ts), LangStart)
         IN IF st.returned THEN st.ret
            ELSE IF st.exclude > EXCLUDE_MAX /\ st.exclude > st.latin THEN None
            ELSE IF st.latin >= LATIN_MIN THEN Some("en")
            ELSE None

----------------------------------------------------------------------------
(* The precompiled regular expressions, each as the replace_all(.., "") it *)
(* is used for.  The regex engine looks for a match start by start from    *)
(* the left, and goes on after the end of each match it finds.             *)

\* a char of a text (a removed position is marked -1)
IsChar(cp) == cp >= 0

\* s without the positions in removed
Without(s, removed) ==
    SelectSeq(Tuple([k \in 1..Len(s) |-> IF k \in removed THEN -1 ELSE s[k]]), IsChar)

\* a char of the class [\d:.]
IsTsChar(cp) == IsDigit(cp) \/ cp = 58 \/ cp = 46

\* first index >= k of s that is not a char of [\d:.], Len(s)+1 if none
TsRunEnd(s, k) ==
    CHOOSE e \in k..(Len(s) + 1) :
        /\ (e = Len(s) + 1 \/ ~IsTsChar(s[e]))
        /\ \A m \in k..(e - 1) : IsTsChar(s[m])

\* re_ts = \[[\d:.]+\] : index of the closing ']' of a match that starts at k, 0 if none
TsMatchEnd(s, k) ==
    IF s[k] # 91 THEN 0
    ELSE LET e == TsRunEnd(s, k + 1)
         IN IF e > k + 1 /\ e <= Len(s) /\ s[e] = 93 THEN e ELSE 0

\* re_ts.replace_all(s, ""): a match holds no '[' but its first char, so no
\* two matches overlap and every start with a match is one the scan finds
re_ts_strip(s) ==
    Without(s, UNION {k..TsMatchEnd(s, k) : k \in {j \in 1..Len(s) : TsMatchEnd(s, j) > 0}})

IsOpenParen(cp) == cp = 40 \/ cp = 65288

IsCloseParen(cp) == cp = 41 \/ cp = 65289

\* first index >= k of s that is a parenthesis of either width, Len(s)+1 if none
ParenRunEnd(s, k) ==
    CHOOSE e \in k..(Len(s) + 1) :
        /\ (e = Len(s) + 1 \/ IsOpenParen(s[e]) \/ IsCloseParen(s[e]))
        /\ \A m \in k..(e - 1) : ~IsOpenParen(s[m]) /\ ~IsCloseParen(s[m])

\* re_paren = [(（][^()（）]*[)）] : index of the closing parenthesis of a
\* match that starts at k, 0 if none
ParenMatchEnd(s, k) ==
    IF ~IsOpenParen(s[k]) THEN 0
    ELSE LET e == ParenRunEnd(s, k + 1)
         IN IF e <= Len(s) /\ IsCloseParen(s[e]) THEN e ELSE 0

\* re_paren.replace_all(s, ""): a match holds no parenthesis between its
\* first and last char, so no two matches overlap
re_paren_strip(s) ==
    Without(s, UNION {k..ParenMatchEnd(s, k) : k \in {j \in 1..Len(s) : ParenMatchEnd(s, j) > 0}})

\* re_non_word = [^\w]
re_non_word_strip(s) == SelectSeq(s, IsWord)

IsWordOrSpace(cp) == IsWord(cp) \/ IsSpace(cp)

\* re_symbol = [^\w\s]
re_symbol_strip(s) == SelectSeq(s, IsWordOrSpace)

\* first index >= k of s that is not whitespace
RECURSIVE SpaceRunEnd(_, _)
SpaceRunEnd(s, k) == IF k <= Len(s) /\ IsSpace(s[k]) THEN SpaceRunEnd(s, k + 1) ELSE k

IsOpenBracket(cp) == cp = 40 \/ cp = 65288 \/ cp = 91 \/ cp = 12304

IsCloseBracket(cp) == cp = 41 \/ cp = 65289 \/ cp = 93 \/ cp = 12305

\* the lazy .+? followed by a closing bracket: the first closing bracket at
\* an index >= k with no '\n' before it, 0 if none ('.' matches no '\n')
RECURSIVE LazyClose(_, _)
LazyClose(s, k) ==
    IF k > Len(s) THEN 0
    ELSE IF IsCloseBracket(s[k]) THEN k
    ELSE IF s[k] = 10 THEN 0
    ELSE LazyClose(s, k + 1)

\* re_bracket = \s*[(（\[【].+?[)）\]】] : index of the closing bracket of a
\* match that starts at k, 0 if none
BracketMatchEnd(s, k) ==
    LET q == SpaceRunEnd(s, k)
    IN IF q > Len(s) \/ ~IsOpenBracket(s[q]) THEN 0
       ELSE IF q + 1 > Len(s) \/ s[q + 1] = 10 THEN 0
       ELSE LazyClose(s, q + 2)

RECURSIVE StripBracketFrom(_, _)
StripBracketFrom(s, k) ==
    IF k > Len(s) THEN <<>>
    ELSE LET e == BracketMatchEnd(s, k)
         IN IF e > 0 THEN StripBracketFrom(s, e + 1)
            ELSE <<s[k]>> \o StripBracketFrom(s, k + 1)

re_bracket_strip(s) == StripBracketFrom(s, 1)

\* s has the word w at index k (s is lowercased before re_feat is applied)
HasWordAt(s, k, w) == k + Len(w) - 1 <= Len(s) /\ SubSeq(s, k, k + Len(w) - 1) = w

\* no '\n' in s from index k on
RECURSIVE NoNewlineFrom(_, _)
NoNewlineFrom(s, k) == k > Len(s) \/ (s[k] # 10 /\ NoNewlineFrom(s, k + 1))

\* \s+.*$ matches s from index k to its end
FeatTail(s, k) ==
    LET e == SpaceRunEnd(s, k) IN e > k /\ NoNewlineFrom(s, e)

\* re_feat = (?i)\s*(feat|ft|with)\s+.*$ has a match that starts at k
FeatMatchAt(s, k) ==
    LET q == SpaceRunEnd(s, k)
    IN \/ (HasWordAt(s, q, <<102, 101, 97, 116>>) /\ FeatTail(s, q + 4))
       \/ (HasWordAt(s, q, <<102, 116>>) /\ FeatTail(s, q + 2))
       \/ (HasWordAt(s, q, <<119, 105, 116, 104>>) /\ FeatTail(s, q + 4))

\* the start of the leftmost match of re_feat at an index >= k, Len(s)+1 if none
RECURSIVE FeatStart(_, _)
FeatStart(s, k) ==
    IF k > Len(s) THEN k
    ELSE IF FeatMatchAt(s, k) THEN k
    ELSE FeatStart(s, k + 1)

\* the match runs to the end of the text, so what is left is the part before it
re_feat_strip(s) == SubSeq(s, 1, FeatStart(s, 1) - 1)

\* split_whitespace().collect().join(" ") from index k on; first: no word emitted yet
RECURSIVE JoinWords(_, _, _)
JoinWords(s, k, first) ==
    LET b == SpaceRunEnd(s, k)
    IN IF b > Len(s) THEN <<>>
       ELSE LET e == IF \E j \in b..Len(s) : IsSpace(s[j])
                     THEN CHOOSE j \in b..Len(s) :
                              IsSpace(s[j]) /\ \A m \in b..(j - 1) : ~IsSpace(s[m])
                     ELSE Len(s) + 1
            IN (IF first THEN <<>> ELSE <<32>>) \o SubSeq(s, b, e - 1)
                   \o JoinWords(s, e, FALSE)

normalize_name(name) ==
    LET n0 == to_lowercase(name)
        n1 == re_bracket_strip(n0)
        n2 == re_feat_strip(n1)
        n3 == re_symbol_strip(n2)
    IN JoinWords(n3, 1, TRUE)

\* MD5 of the bytes of a text.  The digest is rendered by the text it was
\* computed from: equal texts give equal digests, and two different texts of
\* the model never collide.
Md5(text) == text

lyrics_fingerprint(text_no_ts) ==
    LET t1 == re_paren_strip(text_no_ts)
        t2 == re_non_word_strip(t1)
        t3 == to_lowercase(t2)
    IN IF t3 = <<>> THEN None ELSE Some(Md5(t3))

----------------------------------------------------------------------------
(* The input table `lyrics` of the source database.                        *)

\* a nullable column is an Option: SQL NULL is None
NULL == None

\* an inline time marker, "[00:01.00]"
TimeMarker == <<91, 48, 48, 58, 48, 49, 46, 48, 48, 93>>

\* n lines, each a time marker followed by m times the char cp and by tail
Lyric(cp, m, tail, n) == Lines(TimeMarker \o Rep(<<cp>>, m) \o tail, n)

\* rows of the input table: artist_name, track_name, duration, synced_lyrics
\* (album_name is only copied to the output and is left out).  Names:
\* "Ab", "ab (x)", "c"; "T", "t ft z".
Table == <<
    \* 1: 3 lines of 40 Latin letters
    [artist |-> <<65, 98>>, track |-> <<84>>, duration |-> Some(200),
     lyrics |-> Lyric(97, 40, <<>>, 3)],
    \* 2: 10 lines, 149 bytes with the time markers and 49 without
    [artist |-> <<65, 98>>, track |-> <<84>>, duration |-> Some(200),
     lyrics |-> Lyric(97, 4, <<>>, 10)],
    \* 3: 10 lines of 4 Hiragana, no duration
    [artist |-> <<99>>, track |-> <<84>>, duration |-> NULL,
     lyrics |-> Lyric(12354, 4, <<>>, 10)],
    \* 4: 10 lines of 4 Hangul syllables
    [artist |-> <<99>>, track |-> <<84>>, duration |-> Some(61),
     lyrics |-> Lyric(44032, 4, <<>>, 10)],
    \* 5: 10 lines of 6 Cyrillic letters
    [artist |-> <<99>>, track |-> <<84>>, duration |-> Some(200),
     lyrics |-> Lyric(1072, 6, <<>>, 10)],
    \* 6: 10 lines of 10 'a'
    [artist |-> <<65, 98>>, track |-> <<84>>, duration |-> Some(200),
     lyrics |-> Lyric(97, 10, <<>>, 10)],
    \* 7: 12 lines of 10 'b', the names and duration of row 6 written differently
    [artist |-> <<97, 98, 32, 40, 120, 41>>, track |-> <<116, 32, 102, 116, 32, 122>>,
     duration |-> Some(204), lyrics |-> Lyric(98, 10, <<>>, 12)],
    \* 8: 20 lines of "AAAAA (b)": the letters of row 6, other artist and duration
    [artist |-> <<99>>, track |-> <<84>>, duration |-> Some(206),
     lyrics |-> Lyric(65, 5, <<32, 40, 98, 41>>, 20)],
    \* 9: 10 lines of 10 'c', artist and track of row 6, duration 196
    [artist |-> <<65, 98>>, track |-> <<84>>, duration |-> Some(196),
     lyrics |-> Lyric(99, 10, <<>>, 10)],
    \* 10: 10 lines of "(aaaaaaaaaa)", no time markers
    [artist |-> <<99>>, track |-> <<84>>, duration |-> Some(200),
     lyrics |-> Lines(<<40>> \o Rep(<<97>>, 10) \o <<41>>, 10)],
    \* 11: the lyrics of row 10, artist and track of row 6
    [artist |-> <<65, 98>>, track |-> <<84>>, duration |-> Some(204),
     lyrics |-> Lines(<<40>> \o Rep(<<97>>, 10) \o <<41>>, 10)],
    \* 12: 5 lines of 20 'a': the letters of row 6 on fewer lines
    [artist |-> <<65, 98>>, track |-> <<84>>, duration |-> Some(200),
     lyrics |-> Lyric(97, 20, <<>>, 5)],
    \* 13: the lyrics of row 7 with a duration under a minute
    [artist |-> <<99>>, track |-> <<84>>, duration |-> Some(50),
     lyrics |-> Lyric(98, 10, <<>>, 12)],
    \* 14: 50 lines of 4 Hiragana, artist "j"
    [artist |-> <<106>>, track |-> <<84>>, duration |-> Some(200),
     lyrics |-> Lyric(12354, 4, <<>>, 50)],
    \* 15: the lines of row 14 with a "!" at the end of each, artist "k", track "U"
    [artist |-> <<107>>, track |-> <<85>>, duration |-> Some(300),
     lyrics |-> Lyric(12354, 4, <<33>>, 50)],
    \* 16: 40 lines of 10 'd', artist "m"
    [artist |-> <<109>>, track |-> <<84>>, duration |-> Some(200),
     lyrics |-> Lyric(100, 10, <<>>, 40)],
    \* 17: 60 lines of 10 'e', artist "M" and duration 204: the key of row 16
    [artist |-> <<77>>, track |-> <<84>>, duration |-> Some(204),
     lyrics |-> Lyric(101, 10, <<>>, 60)]
>>

\* the primary keys of the input table
Ids == DOMAIN Table

\* WHERE duration IS NULL OR duration >= 60
MIN_DURATION == 60

Selected(id) ==
    IF Table[id].duration = NULL THEN TRUE ELSE Table[id].duration[1] >= MIN_DURATION

----------------------------------------------------------------------------
(* The per-row computations of the loop body.                              *)

\* quality gate: minimum number of lines and of bytes without time markers
MIN_LINES == 10

MIN_TEXT_LEN == 100

\* lyrics.matches('\n').count() + 1
line_count(lyrics) == Cardinality({k \in 1..Len(lyrics) : lyrics[k] = 10}) + 1

\* the quotient cast without round()
RoundDiv10_truncated(x) == x \div 10

\* (x / 10.0).round() as i64 for a whole number of seconds x: f64::round
\* rounds half away from zero
RoundDiv10(x) == IF x >= 0 THEN (x + 5) \div 10 ELSE -((5 - x) \div 10)

\* dur.unwrap_or(0.0) / 10.0, rounded
duration_bucket(dur) == RoundDiv10(IF dur = None THEN 0 ELSE dur[1])

\* the decimal digits of n >= 0
RECURSIVE Digits(_)
Digits(n) == IF n < 10 THEN <<48 + n>> ELSE Digits(n \div 10) \o <<48 + (n % 10)>>

\* Display of an i64
Decimal(n) == IF n < 0 THEN <<45>> \o Digits(-n) ELSE Digits(n)

\* format!("{}\t{}\t{}", normalized artist, normalized track, bucket)
meta_key(artist, track, dur) ==
    normalize_name(artist) \o <<9>> \o normalize_name(track) \o <<9>>
        \o Decimal(duration_bucket(dur))

\* what the loop body computes from the row id before it touches the
\* indexes: the line count, the text without time markers, the language,
\* the fingerprint and the metadata key
Prep == Tuple([id \in Ids |->
    LET row == Table[id]
        text_no_ts == re_ts_strip(row.lyrics)
    IN [line_count |-> line_count(row.lyrics),
        text_len   |-> ByteLen(trim(text_no_ts)),
        lang       |-> classify_lang(text_no_ts),
        fp         |-> lyrics_fingerprint(text_no_ts),
        key        |-> meta_key(row.artist, row.track, row.duration)]])

----------------------------------------------------------------------------
(* The run: the while loop over the cursor and the final COMMIT.           *)

\* batch size of the periodic commit
COMMIT_EVERY == 100000

\* the gate on the line count alone
quality_rejected_lines_only(p) == p.line_count < MIN_LINES

\* step 1 rejects the record
quality_rejected(p) == p.line_count < MIN_LINES \/ p.text_len < MIN_TEXT_LEN

\* the result of fp_seen.insert(fp) left unused
fp_duplicate_ignored(p, seen) == FALSE

\* step 3 rejects the record: it has a fingerprint and fp_seen.insert(fp)
\* returns false
fp_duplicate(p, seen) == p.fp # None /\ p.fp[1] \in seen

\* the index holding the latest fingerprint alone
fp_inserted_latest(p, seen) == IF p.fp = None THEN seen ELSE {p.fp[1]}

\* fp_seen after step 3 has let the record through
fp_inserted(p, seen) == IF p.fp = None THEN seen ELSE seen \cup {p.fp[1]}

\* a strict comparison of the line counts
meta_rejected_strict(p, seen) ==
    p.key \in DOMAIN seen /\ p.line_count < seen[p.key][2]

\* the latest record of a key always taken
meta_rejected_never(p, seen) == FALSE

\* the comparison of the line counts the wrong way round
meta_rejected_reversed(p, seen) ==
    p.key \in DOMAIN seen /\ p.line_count >= seen[p.key][2]

\* step 4 rejects the record: the key is known with at least as many lines
meta_rejected(p, seen) ==
    p.key \in DOMAIN seen /\ p.line_count <= seen[p.key][2]

\* the entry of a known key given the new line count and left with its id
meta_inserted_keeps_id(seen, key, rid, lines) ==
    [k \in DOMAIN seen \cup {key} |->
        IF k = key
        THEN IF key \in DOMAIN seen THEN <<seen[key][1], lines>> ELSE <<rid, lines>>
        ELSE seen[k]]

\* meta_seen.insert(meta_key, (rid, line_count))
meta_inserted(seen, key, rid, lines) ==
    [k \in DOMAIN seen \cup {key} |-> IF k = key THEN <<rid, lines>> ELSE seen[k]]

\* the DELETE bound to an id that has no row
sql_delete_nothing(table, prev_id) == table

\* DELETE FROM lyrics WHERE id = prev_id
sql_delete(table, prev_id) == {r \in table : r.id # prev_id}

\* INSERT INTO lyrics VALUES (rid, .., lang)
sql_insert(table, rid, lang) == table \cup {[id |-> rid, lang |-> lang]}

\* stats[4] without the decrement of a supersession
kept_after_write_no_decrement(kept, superseded) == kept + 1

\* stats[4] after the record was written: decremented when a row was
\* superseded, then incremented
kept_after_write(kept, superseded) == (IF superseded THEN kept - 1 ELSE kept) + 1

\* the test of the kept counter made before its increment
periodic_commit_off_by_one(kept, after_delete, after_insert, before) ==
    IF (kept + 1) % COMMIT_EVERY = 0 THEN after_insert ELSE before

\* "COMMIT; BEGIN" issued between the DELETE and the INSERT
periodic_commit_before_insert(kept, after_delete, after_insert, before) ==
    IF kept % COMMIT_EVERY = 0 THEN after_delete ELSE before

\* the committed rows after the write: "COMMIT; BEGIN" follows the INSERT
\* when stats[4] is a multiple of the batch size, and commits the table as
\* the INSERT left it
periodic_commit(kept, after_delete, after_insert, before) ==
    IF kept % COMMIT_EVERY = 0 THEN after_insert ELSE before

\* the loop body with the fingerprint check moved before the quality gate
ProcessRow_fp_first(id) ==
    /\ pc = "scan"
    /\ id \notin consumed
    /\ Selected(id)
    /\ Cardinality(consumed) < MaxRows
    /\ consumed' = consumed \cup {id}
    /\ i' = i + 1
    /\ UNCHANGED <<pc, in_txn, probe, builder_vars>>
    /\ LET p == Prep[id]
       IN IF fp_duplicate(p, fp_seen)
          THEN /\ stats' = [stats EXCEPT !.fp_dedup = @ + 1]
               /\ UNCHANGED <<fp_seen, meta_seen, dst, committed, submitted, written>>
          ELSE /\ fp_seen' = fp_inserted(p, fp_seen)
               /\ IF quality_rejected(p)
                  THEN /\ stats' = [stats EXCEPT !.quality = @ + 1]
                       /\ UNCHANGED <<meta_seen, dst, committed, submitted, written>>
                  ELSE IF p.lang = None
                  THEN /\ stats' = [stats EXCEPT !.lang = @ + 1]
                       /\ UNCHANGED <<meta_seen, dst, committed, submitted, written>>
                  ELSE /\ submitted' = submitted \cup
                              {[key |-> p.key, id |-> id, line_count |-> p.line_count]}
                       /\ IF meta_rejected(p, meta_seen)
                          THEN /\ stats' = [stats EXCEPT !.meta_dedup = @ + 1]
                               /\ UNCHANGED <<meta_seen, dst, committed, written>>
                          ELSE LET superseded == p.key \in DOMAIN meta_seen
                                   deleted == IF superseded
                                              THEN sql_delete(dst, meta_seen[p.key][1])
                                              ELSE dst
                                   kept == kept_after_write(stats.kept, superseded)
                               IN /\ meta_seen' = meta_inserted(meta_seen, p.key, id, p.line_count)
                                  /\ dst' = sql_insert(deleted, id, p.lang[1])
                                  /\ written' = written \cup {id}
                                  /\ stats' = [stats EXCEPT
                                         !.meta_dedup = IF superseded THEN @ + 1 ELSE @,
                                         !.kept = kept]
                                  /\ committed' = periodic_commit(kept, deleted, dst', committed)

\* one iteration of the while loop, on the row id that rows.next() yields
ProcessRow(id) ==
    /\ pc = "scan"
    /\ id \notin consumed
    /\ Selected(id)
    /\ Cardinality(consumed) < MaxRows
    /\ consumed' = consumed \cup {id}
    /\ i' = i + 1
    /\ UNCHANGED <<pc, in_txn, probe, builder_vars>>
    /\ LET p == Prep[id]
       IN IF quality_rejected(p)
          THEN /\ stats' = [stats EXCEPT !.quality = @ + 1]
               /\ UNCHANGED <<fp_seen, meta_seen, dst, committed, submitted, written>>
          ELSE IF p.lang = None
          THEN /\ stats' = [stats EXCEPT !.lang = @ + 1]
               /\ UNCHANGED <<fp_seen, meta_seen, dst, committed, submitted, written>>
          ELSE IF fp_duplicate(p, fp_seen)
          THEN /\ stats' = [stats EXCEPT !.fp_dedup = @ + 1]
               /\ UNCHANGED <<fp_seen, meta_seen, dst, committed, submitted, written>>
          ELSE /\ fp_seen' = fp_inserted(p, fp_seen)
               /\ submitted' = submitted \cup
                      {[key |-> p.key, id |-> id, line_count |-> p.line_count]}
               /\ IF meta_rejected(p, meta_seen)
                  THEN /\ stats' = [stats EXCEPT !.meta_dedup = @ + 1]
                       /\ UNCHANGED <<meta_seen, dst, committed, written>>
                  ELSE LET superseded == p.key \in DOMAIN meta_seen
                           deleted == IF superseded
                                      THEN sql_delete(dst, meta_seen[p.key][1])
                                      ELSE dst
                           kept == kept_after_write(stats.kept, superseded)
                       IN /\ meta_seen' = meta_inserted(meta_seen, p.key, id, p.line_count)
                          /\ dst' = sql_insert(deleted, id, p.lang[1])
                          /\ written' = written \cup {id}
                          /\ stats' = [stats EXCEPT
                                 !.meta_dedup = IF superseded THEN @ + 1 ELSE @,
                                 !.kept = kept]
                          /\ committed' = periodic_commit(kept, deleted, dst', committed)

\* rows.next() yields None: the loop ends and the open transaction is committed
EndOfStream ==
    /\ pc = "scan"
    /\ pc' = "done"
    /\ committed' = dst
    /\ in_txn' = FALSE
    /\ UNCHANGED <<consumed, i, fp_seen, meta_seen, dst, stats, submitted, written, probe>>
    /\ UNCHANGED builder_vars

\* the probe before classify_lang is called on text
Unprobed(text) == [text |-> text, done |-> FALSE, lang |-> None]

\* the builder when the first p discovered videos have been fetched, sent
\* and received by the writer, p being less than a batch: with p = 0 the
\* state after the channel is made and the writer spawned
BuilderAt(p) ==
    /\ repos = [k \in 1..MaxVideos |-> p + k]
    /\ fetching = {}
    /\ channel = <<>>
    /\ tx_dropped = FALSE
    /\ temp_buffer = [k \in 1..p |-> k]
    /\ count = p
    /\ lyrics_db = {}
    /\ writer_pc = "recv"
    /\ main_pc = "fetch"
    /\ sent = 1..p
    /\ batches = <<>>
    /\ compressed = None

\* the state at the head of the while loop, after BEGIN
InitFilter ==
    /\ consumed = {}
    /\ i = 0
    /\ fp_seen = {}
    /\ meta_seen = <<>>
    /\ dst = {}
    /\ stats = [quality |-> 0, lang |-> 0, fp_dedup |-> 0, meta_dedup |-> 0, kept |-> 0]
    /\ in_txn = TRUE
    /\ committed = {}
    /\ pc = "scan"
    /\ submitted = {}
    /\ written = {}

Init == InitFilter /\ probe = Unprobed(<<>>) /\ BuilderAt(0)

Next == (\E id \in Ids : ProcessRow(id)) \/ EndOfStream

Spec == Init /\ [][Next]_vars

----------------------------------------------------------------------------
(* classify_lang on its own, on texts made of runs of one char.            *)

\* the runs: a char of each class the classifier tells apart (Hiragana,
\* Hangul, Latin, Cyrillic, space), in the lengths around its thresholds
Blocks ==
    {Rep(<<cp>>, n) : cp \in {12354, 44032}, n \in {1, JA_MIN - 1, JA_MIN}}
        \cup {Rep(<<97>>, n) : n \in {1, LATIN_MIN - 1, LATIN_MIN}}
        \cup {Rep(<<1072>>, n) : n \in {1, EXCLUDE_MAX, EXCLUDE_MAX + 1}}
        \cup {<<32>>}

\* the texts of at most n runs
RECURSIVE TextsOf(_)
TextsOf(n) ==
    IF n = 0 THEN {<<>>}
    ELSE LET shorter == TextsOf(n - 1)
         IN shorter \cup {t \o b : t \in shorter, b \in Blocks}

ProbeTexts == TextsOf(MaxBlocks)

\* the call classify_lang(probe.text) returns
ClassifyProbe ==
    /\ ~probe.done
    /\ probe' = [probe EXCEPT !.done = TRUE, !.lang = classify_lang(probe.text)]
    /\ UNCHANGED <<filter_vars, builder_vars>>

InitClassify == InitFilter /\ BuilderAt(0) /\ \E t \in ProbeTexts : probe = Unprobed(t)

\* the filter runs beside the probe of the empty text
NextClassify == ClassifyProbe \/ (probe.text = <<>> /\ Next)

SpecClassify == InitClassify /\ [][NextClassify]_vars

----------------------------------------------------------------------------
(* Vocabulary of the properties.                                           *)

\* the step is the iteration of the while loop on row id
Processes(id) == id \notin consumed /\ consumed' = consumed \cup {id}

\* row id passes the quality gate and the language classifier, so it
\* reaches the fingerprint check
ReachesFingerprint(id) == ~quality_rejected(Prep[id]) /\ Prep[id].lang # None

\* rows a and b have the same, non-empty, fingerprint-normalized text
SameFingerprint(a, b) == Prep[a].fp # None /\ Prep[a].fp = Prep[b].fp

\* the step submits a record to metadata-identity resolution
Submits(id) == Processes(id) /\ submitted' # submitted

\* the rows of the output that carry the metadata identity key
RowsOfKey(table, key) == {r \in table : Prep[r.id].key = key}

\* the counters but one are left as they are
OnlyCounts(field) ==
    \A f \in DOMAIN stats : stats'[f] = IF f = field THEN stats[f] + 1 ELSE stats[f]

----------------------------------------------------------------------------
(* C1: after every processed record the output holds at most one row per   *)
(* metadata identity key, and the line count of that row is the greatest   *)
(* among the records submitted to metadata resolution under the key so far *)
C1_OnePerKeyLongest ==
    /\ \A r1, r2 \in dst : Prep[r1.id].key = Prep[r2.id].key => r1 = r2
    /\ \A r \in dst : \A s \in submitted :
           s.key = Prep[r.id].key => s.line_count <= Prep[r.id].line_count

\* a key was submitted twice with different line counts, the shorter one last
C1_Witness ==
    \E r \in dst : \E s \in submitted :
        /\ s.key = Prep[r.id].key
        /\ s.line_count < Prep[r.id].line_count
        /\ s.id \notin written

----------------------------------------------------------------------------
----------------------------------------------------------------------------
(* C3: a record submitted to metadata resolution under a key whose stored  *)
(* line count is strictly smaller supersedes: the row of the stored id     *)
(* leaves the output, the new row enters it, the index entry of the key    *)
(* becomes the new id and line count, the metadata-duplicate counter goes  *)
(* up by one, the kept counter is as before, and the key has one row       *)
C3_Supersede ==
    [][\A id \in Ids :
         (/\ Submits(id)
          /\ Prep[id].key \in DOMAIN meta_seen
          /\ meta_seen[Prep[id].key][2] < Prep[id].line_count) =>
            LET key == Prep[id].key
                prev_id == meta_seen[key][1]
            IN /\ prev_id \in {r.id : r \in dst}
               /\ prev_id \notin {r.id : r \in dst'}
               /\ {r.id : r \in dst'} = ({r.id : r \in dst} \ {prev_id}) \cup {id}
               /\ meta_seen'[key] = <<id, Prep[id].line_count>>
               /\ stats'.meta_dedup = stats.meta_dedup + 1
               /\ stats'.kept = stats.kept
               /\ Cardinality(RowsOfKey(dst', key)) = 1]_vars

\* a longer record has taken the place of a shorter one of the same key
C3_Witness ==
    \E r \in dst : \E s \in submitted :
        /\ s.key = Prep[r.id].key
        /\ s.line_count < Prep[r.id].line_count
        /\ s.id \in written
        /\ s.id \notin {q.id : q \in dst}
        /\ stats.meta_dedup >= 1
        /\ stats.kept = Cardinality(dst)

----------------------------------------------------------------------------
(* C4: a record submitted to metadata resolution under a key whose stored  *)
(* line count is greater or equal is rejected as a metadata duplicate:     *)
(* the metadata-duplicate counter alone goes up by one, and the output,    *)
(* the kept counter and the index entry of the key are as before           *)
C4_RejectShorter ==
    [][\A id \in Ids :
         (/\ Submits(id)
          /\ Prep[id].key \in DOMAIN meta_seen
          /\ meta_seen[Prep[id].key][2] >= Prep[id].line_count) =>
            /\ OnlyCounts("meta_dedup")
            /\ UNCHANGED <<dst, meta_seen, written>>]_vars

\* a record with as many lines as the retained one of its key was rejected
C4_Witness ==
    \E r \in dst : \E s \in submitted :
        /\ s.key = Prep[r.id].key
        /\ s.id # r.id
        /\ s.line_count = Prep[r.id].line_count
        /\ s.id \notin written
        /\ stats.meta_dedup >= 1

----------------------------------------------------------------------------
(* The run as a function of the order of the cursor: the loop body applied *)
(* to the indexes and the output alone, and the rows of a set taken in the *)
(* order of their ids.                                                     *)

\* the indexes and the output before the first row
ReplayStart == [fp_seen |-> {}, meta_seen |-> <<>>, dst |-> {}]

\* one iteration of the while loop on row id
ReplayRow(st, id) ==
    LET p == Prep[id]
    IN IF quality_rejected(p) THEN st
       ELSE IF p.lang = None THEN st
       ELSE IF fp_duplicate(p, st.fp_seen) THEN st
       ELSE IF meta_rejected(p, st.meta_seen)
            THEN [st EXCEPT !.fp_seen = fp_inserted(p, st.fp_seen)]
            ELSE LET deleted == IF p.key \in DOMAIN st.meta_seen
                                THEN sql_delete(st.dst, st.meta_seen[p.key][1])
                                ELSE st.dst
                 IN [fp_seen |-> fp_inserted(p, st.fp_seen),
                     meta_seen |-> meta_inserted(st.meta_seen, p.key, id, p.line_count),
                     dst |-> sql_insert(deleted, id, p.lang[1])]

\* the rows of ids processed by ascending id
RECURSIVE Replay(_)
Replay(ids) ==
    IF ids = {} THEN ReplayStart
    ELSE LET last == CHOOSE m \in ids : \A n \in ids : n <= m
         IN ReplayRow(Replay(ids \ {last}), last)

\* the content of an output store: its keys and the line count of each
Content(table) == {<<Prep[r.id].key, Prep[r.id].line_count>> : r \in table}

\* no two records that reach the fingerprint check have the same fingerprint
NoSharedFingerprint(ids) ==
    \A a, b \in ids :
        (a # b /\ ReachesFingerprint(a) /\ ReachesFingerprint(b)) => ~SameFingerprint(a, b)

(* C5, as stated: the final content of the output (keys and line counts)   *)
(* is the same for every order of the same set of records, so it is the    *)
(* content the run reaches when the cursor yields them by ascending id     *)
C5_AsStated ==
    pc = "done" => Content(dst) = Content(Replay(consumed).dst)

(* C5, amended: for a set of records of which no two that pass the quality *)
(* gate and the language classifier have the same fingerprint, the final   *)
(* content of the output (keys and line counts) is the same for every      *)
(* order; the order can only change which row id is retained for a key     *)
C5_OrderIndependent ==
    (pc = "done" /\ NoSharedFingerprint(consumed)) =>
        Content(dst) = Content(Replay(consumed).dst)

\* a finished run whose order retained another row id than the ascending
\* order does, for a key submitted more than once
C5_Witness ==
    /\ pc = "done"
    /\ NoSharedFingerprint(consumed)
    /\ dst # Replay(consumed).dst
    /\ \E s, t \in submitted : s.key = t.key /\ s.id # t.id

----------------------------------------------------------------------------
(* C6: after every processed record the kept counter is the number of rows *)
(* in the output: one up per insertion, one down per supersession delete,  *)
(* and the decrement is never applied to a counter that is zero            *)
C6_KeptIsRowCount ==
    [][/\ stats'.kept = Cardinality(dst')
       /\ \A id \in Ids :
            (Submits(id) /\ written' # written) =>
               IF Prep[id].key \in DOMAIN meta_seen
               THEN stats.kept >= 1 /\ stats'.kept = (stats.kept - 1) + 1
               ELSE stats'.kept = stats.kept + 1]_vars

\* a supersession has happened and a row has been inserted under a new key
C6_Witness ==
    /\ stats.kept = Cardinality(dst)
    /\ Cardinality(dst) >= 2
    /\ Cardinality(written) > Cardinality(dst)

----------------------------------------------------------------------------
----------------------------------------------------------------------------
(* C8: a record whose lyrics have fewer than 10 lines, or whose text       *)
(* without time markers, trimmed, is shorter than 100 bytes, increments    *)
(* the quality-rejected counter by one and nothing else, and is never      *)
(* written to the output                                                   *)
C8_QualityRejected ==
    [][/\ \A id \in Ids :
            (Processes(id) /\ (Prep[id].line_count < 10 \/ Prep[id].text_len < 100)) =>
                OnlyCounts("quality") /\ UNCHANGED <<dst, written>>
       /\ \A id \in written' : Prep[id].line_count >= 10 /\ Prep[id].text_len >= 100]_vars

\* a record short by its lines and a record short by its text alone were
\* both rejected
C8_Witness ==
    \E a, b \in consumed :
        /\ Prep[a].line_count < 10
        /\ Prep[b].line_count >= 10 /\ Prep[b].text_len < 100
        /\ {a, b} \cap written = {}
        /\ stats.quality >= 2

----------------------------------------------------------------------------
(* Vocabulary of the properties of the classifier.                         *)

\* the number of chars of s that test holds of
CountOf(s, test(_)) == Cardinality({k \in 1..Len(s) : test(s[k])})

----------------------------------------------------------------------------
(* C9: every row of the output carries one of the three language tags ja,  *)
(* ko and en, and a text shorter than 30 bytes is classified unsupported   *)
(* whatever scripts it mixes, the empty text included                      *)
C9_ThreeTagsAndFloor ==
    /\ \A r \in dst : r.lang \in {"ja", "ko", "en"}
    /\ (probe.done /\ ByteLen(probe.text) < 30) => probe.lang = None

\* the empty text was classified unsupported and the output has a row of
\* each of the three tags
C9_Witness ==
    /\ probe.done
    /\ probe.text = <<>>
    /\ probe.lang = None
    /\ {r.lang : r \in dst} = {"ja", "ko", "en"}

\* a text of two scripts below 30 bytes was classified unsupported
C9_MixtureWitness ==
    /\ probe.done
    /\ ByteLen(probe.text) < 30
    /\ CountOf(probe.text, IsJa) >= 1
    /\ CountOf(probe.text, IsKo) >= 1
    /\ probe.lang = None

----------------------------------------------------------------------------
(* C10: a text of exactly 10 Japanese chars, fewer than 10 Korean chars,   *)
(* fewer than 30 Latin chars and at most 50 chars of the excluded scripts  *)
(* classifies as ja; a text of 9 Japanese chars does not classify as ja    *)
C10_JapaneseBoundary ==
    probe.done =>
        /\ (/\ CountOf(probe.text, IsJa) = 10
            /\ CountOf(probe.text, IsKo) < 10
            /\ CountOf(probe.text, IsLatin) < 30
            /\ CountOf(probe.text, IsExclude) <= 50) => probe.lang = Some("ja")
        /\ CountOf(probe.text, IsJa) = 9 => probe.lang # Some("ja")

\* a text of 10 Japanese chars after 9 Korean chars was classified as ja
C10_Witness ==
    /\ probe.done
    /\ CountOf(probe.text, IsJa) = 10
    /\ CountOf(probe.text, IsKo) = 9
    /\ probe.lang = Some("ja")

\* a text of 9 Japanese and 9 Korean chars was classified unsupported
C10_NineWitness ==
    /\ probe.done
    /\ CountOf(probe.text, IsJa) = 9
    /\ CountOf(probe.text, IsKo) = 9
    /\ probe.lang = None

----------------------------------------------------------------------------
(* The metadata key as a function of two records: the key of step 4 is     *)
(* computed for a pair of records drawn from a few names and durations.    *)

\* the whole seconds probed, beside a missing duration: durations that the
\* WHERE clause of the cursor lets through
ProbeDurLo == 183

ProbeDurHi == 197

KeyDurations == {NULL} \cup {Some(d) : d \in ProbeDurLo..ProbeDurHi}

\* "Ab", "ab (x)", "c"
KeyArtists == {<<65, 98>>, <<97, 98, 32, 40, 120, 41>>, <<99>>}

\* "T", "t ft z"
KeyTracks == {<<84>>, <<116, 32, 102, 116, 32, 122>>}

KeyRecords == [artist : KeyArtists, track : KeyTracks, duration : KeyDurations]

\* the pair before its keys are computed
Unkeyed(a, b) == [a |-> a, b |-> b, done |-> FALSE,
                  bucket_a |-> 0, bucket_b |-> 0, key_a |-> <<>>, key_b |-> <<>>]

\* step 4 computes the bucket and the key of both records
KeyProbe ==
    /\ ~probe.done
    /\ probe' = [probe EXCEPT
           !.done = TRUE,
           !.bucket_a = duration_bucket(probe.a.duration),
           !.bucket_b = duration_bucket(probe.b.duration),
           !.key_a = meta_key(probe.a.artist, probe.a.track, probe.a.duration),
           !.key_b = meta_key(probe.b.artist, probe.b.track, probe.b.duration)]
    /\ UNCHANGED <<filter_vars, builder_vars>>

InitKey == InitFilter /\ BuilderAt(0) /\ \E a, b \in KeyRecords : probe = Unkeyed(a, b)

NextKey == KeyProbe

SpecKey == InitKey /\ [][NextKey]_vars

\* the duration in seconds, a missing one taken as 0
Seconds(dur) == IF dur = NULL THEN 0 ELSE dur[1]

Distance(x, y) == IF x >= y THEN x - y ELSE y - x

----------------------------------------------------------------------------
(* C11, as stated: two records of equal normalized artist and equal        *)
(* normalized track whose durations differ by 5 seconds or less get the    *)
(* same duration bucket and so the same metadata key                       *)
C11_AsStated ==
    (/\ probe.done
     /\ normalize_name(probe.a.artist) = normalize_name(probe.b.artist)
     /\ normalize_name(probe.a.track) = normalize_name(probe.b.track)
     /\ probe.a.duration # NULL /\ probe.b.duration # NULL
     /\ Distance(Seconds(probe.a.duration), Seconds(probe.b.duration)) <= 5) =>
        probe.bucket_a = probe.bucket_b /\ probe.key_a = probe.key_b

----------------------------------------------------------------------------
(* C12: the duration bucket is the duration in seconds divided by 10 and   *)
(* rounded to the nearest integer, a missing duration taken as 0: 186 and  *)
(* 194 get bucket 19, 184 gets 18 and 196 gets 20                          *)
C12_DurationBucket ==
    probe.done =>
        /\ Distance(10 * probe.bucket_a, Seconds(probe.a.duration)) <= 5
        /\ probe.a.duration = NULL => probe.bucket_a = 0
        /\ probe.a.duration = Some(186) => probe.bucket_a = 19
        /\ probe.a.duration = Some(194) => probe.bucket_a = 19
        /\ probe.a.duration = Some(184) => probe.bucket_a = 18
        /\ probe.a.duration = Some(196) => probe.bucket_a = 20

\* 186 and 194 were given the same bucket 19
C12_Witness ==
    /\ probe.done
    /\ probe.a.duration = Some(186) /\ probe.b.duration = Some(194)
    /\ probe.bucket_a = 19 /\ probe.bucket_b = 19

\* 184 and 196 were given the buckets 18 and 20
C12_ApartWitness ==
    /\ probe.done
    /\ probe.a.duration = Some(184) /\ probe.b.duration = Some(196)
    /\ probe.bucket_a = 18 /\ probe.bucket_b = 20

\* a missing duration was given bucket 0
C12_MissingWitness ==
    probe.done /\ probe.a.duration = NULL /\ probe.bucket_a = 0

----------------------------------------------------------------------------
(* The run on a cursor that yields the rows by ascending id: the input     *)
(* table is any set of rows of Table.                                      *)

\* rows.next() yields row id, the row of the least id above those yielded
OrderedRow(id) == (\A c \in consumed : c < id) /\ ProcessRow(id)

NextOrdered == (\E id \in Ids : OrderedRow(id)) \/ EndOfStream

SpecOrdered == Init /\ [][NextOrdered]_vars

\* the stream of five rows: a record of 3 lines, a Japanese record of 50
\* lines, a record of other names with its content, an English record of
\* 40 lines and one of 60 lines under the key of the latter
FiveRows == {1, 14, 15, 16, 17}

----------------------------------------------------------------------------
(* C13: after the five-row stream (quality-failing record of 3 lines,      *)
(* Japanese record of 50 lines, record of other artist and track with the  *)
(* same normalized content, English record of 40 lines with key K, English *)
(* record of 60 lines with key K), in that order, the output holds rows 2  *)
(* and 5 alone, row 4 was inserted and deleted, and the counters are       *)
(* quality 1, language 0, content-duplicate 1, metadata-duplicate 1 and    *)
(* kept 2                                                                  *)
C13_FiveRowStream ==
    (pc = "done" /\ consumed = FiveRows) =>
        /\ {r.id : r \in dst} = {14, 17}
        /\ written = {14, 16, 17}
        /\ stats = [quality |-> 1, lang |-> 0, fp_dedup |-> 1, meta_dedup |-> 1,
                    kept |-> 2]

\* the run on the five rows has ended, and the rows are what the stream
\* says they are
C13_Witness ==
    /\ pc = "done"
    /\ consumed = FiveRows
    /\ Prep[1].line_count = 3
    /\ Prep[14].line_count = 50 /\ Prep[14].lang = Some("ja")
    /\ SameFingerprint(14, 15) /\ Prep[14].key # Prep[15].key
    /\ Prep[16].line_count = 40 /\ Prep[16].lang = Some("en")
    /\ Prep[17].line_count = 60 /\ Prep[17].lang = Some("en")
    /\ Prep[16].key = Prep[17].key
    /\ {r.id : r \in dst} = {14, 17}

----------------------------------------------------------------------------
(* C14: a row of the output is never modified; it is removed only in the   *)
(* step that writes a record of the same metadata key with strictly more   *)
(* lines; a row that is not superseded stays to the end of the run, and a  *)
(* removed row never comes back                                            *)
C14_RowsImmutable ==
    [][/\ \A r \in dst :
            \/ r \in dst'
            \/ \E id \in Ids :
                   /\ Processes(id)
                   /\ id \in written' \ written
                   /\ id \in {q.id : q \in dst'}
                   /\ Prep[id].key = Prep[r.id].key
                   /\ Prep[id].line_count > Prep[r.id].line_count
       /\ \A r \in dst : \A q \in dst' : q.id = r.id => q = r
       /\ \A id \in written \ {r.id : r \in dst} : id \notin {q.id : q \in dst'}]_vars

\* the run has ended with a row removed by a longer record of its key and a
\* row that outlived a record of its key with no more lines
C14_Witness ==
    /\ pc = "done"
    /\ written \ {r.id : r \in dst} # {}
    /\ \E r \in dst : \E s \in submitted :
           s.key = Prep[r.id].key /\ s.id \notin written

----------------------------------------------------------------------------
(* The run near a batch boundary: the rows of Table are read after a       *)
(* number of other records were kept.  Those records have keys and         *)
(* fingerprints of their own, so fp_seen, meta_seen, dst and committed     *)
(* hold what belongs to the rows of Table, and stats.kept and i count the  *)
(* earlier records too.                                                    *)

\* the kept counter starts below the batch size, at most this far
MaxBefore == 2

PriorKept == {COMMIT_EVERY - k : k \in 1..MaxBefore}

InitBatch ==
    /\ \E k \in PriorKept :
           /\ i = k
           /\ stats = [quality |-> 0, lang |-> 0, fp_dedup |-> 0, meta_dedup |-> 0,
                       kept |-> k]
    /\ consumed = {}
    /\ fp_seen = {}
    /\ meta_seen = <<>>
    /\ dst = {}
    /\ in_txn = TRUE
    /\ committed = {}
    /\ pc = "scan"
    /\ submitted = {}
    /\ written = {}
    /\ probe = Unprobed(<<>>)
    /\ BuilderAt(0)

\* the cursor yields the rows of Table by ascending id
SpecBatch == InitBatch /\ [][NextOrdered]_vars

\* the number of records kept before the rows of Table
Prior == i - Cardinality(consumed)

----------------------------------------------------------------------------
(* C15: during the scan one output transaction is open; "COMMIT; BEGIN" is *)
(* issued exactly after a write that leaves the kept counter at a multiple *)
(* of 100000; at stream end the open transaction is committed, so that the *)
(* finished run has every insert and delete committed and no transaction   *)
(* open                                                                    *)
C15_BatchedCommits ==
    [][/\ pc = "scan" /\ in_txn
       /\ pc' = "scan" =>
            /\ in_txn'
            /\ committed' = IF written' # written /\ stats'.kept % 100000 = 0
                            THEN dst' ELSE committed
       /\ pc' = "done" => ~in_txn' /\ dst' = dst /\ committed' = dst']_vars

\* the run has ended after a periodic commit and a final batch of its own
C15_Witness ==
    /\ pc = "done"
    /\ ~in_txn
    /\ Prior = COMMIT_EVERY - 1
    /\ Cardinality(dst) = 2
    /\ stats.kept = COMMIT_EVERY + 1
    /\ committed = dst

\* the scan right after a periodic commit
C15_PeriodicWitness ==
    /\ pc = "scan"
    /\ in_txn
    /\ dst # {}
    /\ stats.kept = COMMIT_EVERY
    /\ committed = dst

\* the scan with writes that are not committed yet
C15_OpenWitness ==
    pc = "scan" /\ in_txn /\ committed # dst /\ committed # {}

----------------------------------------------------------------------------
(* C16: the delete of a superseded row and the insert of its successor are *)
(* in the same transaction: every committed state of the output has at     *)
(* most one row per metadata key and has a row for every key that had a    *)
(* committed row before                                                    *)
C16_CommittedConsistent ==
    [][/\ committed' = committed \/ committed' = dst'
       /\ \A r1, r2 \in committed' : Prep[r1.id].key = Prep[r2.id].key => r1 = r2
       /\ \A r \in committed : RowsOfKey(committed', Prep[r.id].key) # {}]_vars

\* a row was committed, then superseded, and the commit that followed the
\* supersession holds its successor
C16_Witness ==
    /\ pc = "scan"
    /\ Prior = COMMIT_EVERY - 1
    /\ Cardinality(consumed) = 2
    /\ consumed = written
    /\ Cardinality(dst) = 1
    /\ stats.kept = COMMIT_EVERY
    /\ committed = dst

----------------------------------------------------------------------------
(* C17: a record passes the quality gate, the language classifier, the     *)
(* fingerprint check and the metadata resolution in that order and stops   *)
(* at the first rejection: rejected by the quality gate or the classifier  *)
(* it leaves the fingerprint index, the metadata index and the output as   *)
(* they are; rejected as a content duplicate it leaves the metadata index  *)
(* and the output as they are                                              *)
C17_StageOrder ==
    [][\A id \in Ids : Processes(id) =>
         IF Prep[id].line_count < 10 \/ Prep[id].text_len < 100
         THEN OnlyCounts("quality") /\ UNCHANGED <<fp_seen, meta_seen, dst>>
         ELSE IF Prep[id].lang = None
         THEN OnlyCounts("lang") /\ UNCHANGED <<fp_seen, meta_seen, dst>>
         ELSE IF Prep[id].fp # None /\ Prep[id].fp[1] \in fp_seen
         THEN OnlyCounts("fp_dedup") /\ UNCHANGED <<meta_seen, dst>>
         ELSE /\ Submits(id)
              /\ stats'.quality = stats.quality
              /\ stats'.lang = stats.lang
              /\ stats'.fp_dedup = stats.fp_dedup]_vars

\* a record was written; a record of its content failed the quality gate, a
\* record failed the classifier and a record was a content duplicate, and
\* the indexes and the output hold the written record alone
C17_Witness ==
    \E a, q, l, d \in consumed :
        /\ a \in written
        /\ quality_rejected(Prep[q]) /\ SameFingerprint(a, q)
        /\ ~quality_rejected(Prep[l]) /\ Prep[l].lang = None
        /\ ReachesFingerprint(d) /\ SameFingerprint(a, d) /\ d \notin written
        /\ stats = [quality |-> 1, lang |-> 1, fp_dedup |-> 1, meta_dedup |-> 0,
                    kept |-> 1]
        /\ Cardinality(fp_seen) = 1
        /\ DOMAIN meta_seen = {Prep[a].key}
        /\ dst = {[id |-> a, lang |-> Prep[a].lang[1]]}

----------------------------------------------------------------------------
(* The scan without early exit that C18 compares classify_lang with: the   *)
(* four counts of the whole text, then the thresholds.                     *)
FullScan(text) ==
    IF CountOf(text, IsJa) >= 10 THEN Some("ja")
    ELSE IF CountOf(text, IsKo) >= 10 THEN Some("ko")
    ELSE IF CountOf(text, IsExclude) > 50 THEN None
    ELSE IF CountOf(text, IsLatin) >= 30 THEN Some("en")
    ELSE None

\* how many of the thresholds with an early exit the counts of text reach
ExitsReached(text) ==
    (IF CountOf(text, IsJa) >= 10 THEN 1 ELSE 0)
        + (IF CountOf(text, IsKo) >= 10 THEN 1 ELSE 0)
        + (IF CountOf(text, IsExclude) > 50 THEN 1 ELSE 0)

(* C18, as stated: for every text of at least 30 bytes classify_lang       *)
(* returns what the full scan returns, so the result does not depend on    *)
(* the order of the chars                                                  *)
C18_AsStated ==
    (probe.done /\ ByteLen(probe.text) >= 30) => probe.lang = FullScan(probe.text)

(* C18, amended: for every text of at least 30 bytes whose counts reach at *)
(* most one of the thresholds with an early exit (Japanese at least 10,    *)
(* Korean at least 10, excluded above 50) classify_lang returns what the   *)
(* full scan returns, so for such a text the result does not depend on the *)
(* order of the chars                                                      *)
C18_EarlyExitEquivalent ==
    (probe.done /\ ByteLen(probe.text) >= 30 /\ ExitsReached(probe.text) <= 1) =>
        probe.lang = FullScan(probe.text)

\* the early exit on the 10th Japanese char, taken after 30 Latin letters
C18_Witness ==
    /\ probe.done
    /\ Len(probe.text) = 40
    /\ IsLatin(probe.text[1])
    /\ CountOf(probe.text, IsLatin) = 30
    /\ CountOf(probe.text, IsJa) = 10
    /\ probe.lang = Some("ja")
    /\ FullScan(probe.text) = Some("ja")

\* no early exit: 50 excluded chars and 30 Latin letters
C18_NoExitWitness ==
    /\ probe.done
    /\ CountOf(probe.text, IsExclude) = 50
    /\ CountOf(probe.text, IsLatin) = 30
    /\ probe.lang = Some("en")

----------------------------------------------------------------------------
(* C19: after every processed record the five counters add up to the       *)
(* number of records pulled from the cursor: each record adds one to the   *)
(* sum, a supersession being one metadata duplicate and no change of kept  *)
SumOfCounters(s) == s.quality + s.lang + s.fp_dedup + s.meta_dedup + s.kept

C19_CountersAddUp ==
    [][/\ SumOfCounters(stats') = i'
       /\ \A id \in Ids : Processes(id) =>
            /\ i' = i + 1
            /\ SumOfCounters(stats') = SumOfCounters(stats) + 1
            /\ (written' # written /\ Prep[id].key \in DOMAIN meta_seen) =>
                   /\ stats'.meta_dedup = stats.meta_dedup + 1
                   /\ stats'.kept = stats.kept]_vars

\* five records were pulled, one for each counter, the kept one by a
\* supersession
C19_Witness ==
    /\ i = 5
    /\ stats = [quality |-> 1, lang |-> 1, fp_dedup |-> 1, meta_dedup |-> 1, kept |-> 1]
    /\ Cardinality(written) = 2
    /\ Cardinality(dst) = 1

----------------------------------------------------------------------------
(* C20: after every processed record the metadata index and the output     *)
(* correspond one to one: the id stored for a key is the id of a row of    *)
(* the output, of that key and of the stored line count, and every row of  *)
(* the output is the stored id of exactly one key; so the delete of a      *)
(* supersession removes exactly one row                                    *)
IndexMatchesStore ==
    /\ \A key \in DOMAIN meta_seen :
           /\ \E r \in dst : r.id = meta_seen[key][1]
           /\ Prep[meta_seen[key][1]].key = key
           /\ Prep[meta_seen[key][1]].line_count = meta_seen[key][2]
    /\ \A r \in dst :
           Cardinality({key \in DOMAIN meta_seen : meta_seen[key][1] = r.id}) = 1

C20_IndexStoreBijection ==
    [][/\ IndexMatchesStore'
       /\ \A id \in Ids :
            (Submits(id) /\ written' # written /\ Prep[id].key \in DOMAIN meta_seen) =>
               /\ Cardinality({r \in dst : r.id = meta_seen[Prep[id].key][1]}) = 1
               /\ Cardinality(dst') = Cardinality(dst)]_vars

\* two keys are in the index and the output, one after a supersession
C20_Witness ==
    /\ IndexMatchesStore
    /\ Cardinality(DOMAIN meta_seen) = 2
    /\ Cardinality(dst) = 2
    /\ Cardinality(written) = 3

----------------------------------------------------------------------------
(* The builder (src/src/main.rs): the fetch tasks send records on the      *)
(* channel, the writer receives them and commits them in batches, main     *)
(* drops the sender, awaits the writer and compresses the database file.   *)
(* A record is its video id.  The statements that unwrap a database error  *)
(* succeed.                                                                *)

\* mpsc::channel(5000)
CHANNEL_CAP == 5000

\* buffer_unordered(CONCURRENCY_LIMIT)
CONCURRENCY_LIMIT == 200

\* temp_buffer.len() >= 1000
BATCH_SIZE == 1000

\* the records of a sequence
Range(s) == {s[k] : k \in 1..Len(s)}

\* the stream starts the task of the next video
StartFetch ==
    /\ main_pc = "fetch"
    /\ repos # <<>>
    /\ Cardinality(fetching) < CONCURRENCY_LIMIT
    /\ fetching' = fetching \cup {Head(repos)}
    /\ repos' = Tail(repos)
    /\ UNCHANGED <<channel, tx_dropped, temp_buffer, count, lyrics_db, writer_pc,
                   main_pc, sent, batches, compressed>>
    /\ UNCHANGED <<filter_vars, probe>>

\* the task of video_id ends without a record: a request fails, the
\* manifest has no candidate or no path
FetchFails(video_id) ==
    /\ video_id \in fetching
    /\ fetching' = fetching \ {video_id}
    /\ UNCHANGED <<repos, channel, tx_dropped, temp_buffer, count, lyrics_db,
                   writer_pc, main_pc, sent, batches, compressed>>
    /\ UNCHANGED <<filter_vars, probe>>

\* tx_ref.send(record).await returns: Ok with the record in the channel, or
\* Err when the receiver is gone; the task ends either way
Send(video_id) ==
    /\ video_id \in fetching
    /\ writer_pc = "done" \/ Len(channel) < CHANNEL_CAP
    /\ fetching' = fetching \ {video_id}
    /\ IF writer_pc = "done"
       THEN UNCHANGED <<channel, sent>>
       ELSE /\ channel' = Append(channel, video_id)
            /\ sent' = sent \cup {video_id}
    /\ UNCHANGED <<repos, tx_dropped, temp_buffer, count, lyrics_db, writer_pc,
                   main_pc, batches, compressed>>
    /\ UNCHANGED <<filter_vars, probe>>

\* collect() has returned: drop(tx)
DropTx ==
    /\ main_pc = "fetch"
    /\ repos = <<>>
    /\ fetching = {}
    /\ tx_dropped' = TRUE
    /\ main_pc' = "await"
    /\ UNCHANGED <<repos, fetching, channel, temp_buffer, count, lyrics_db,
                   writer_pc, sent, batches, compressed>>
    /\ UNCHANGED <<filter_vars, probe>>

\* rx.blocking_recv() returns Some(record): one iteration of the writer's
\* loop, with the transaction of a full buffer
WriterRecv ==
    /\ writer_pc = "recv"
    /\ channel # <<>>
    /\ channel' = Tail(channel)
    /\ count' = count + 1
    /\ LET pushed == Append(temp_buffer, Head(channel))
       IN IF Len(pushed) >= BATCH_SIZE
          THEN /\ lyrics_db' = lyrics_db \cup Range(pushed)
               /\ batches' = Append(batches, Len(pushed))
               /\ temp_buffer' = <<>>
          ELSE /\ temp_buffer' = pushed
               /\ UNCHANGED <<lyrics_db, batches>>
    /\ UNCHANGED <<repos, fetching, tx_dropped, writer_pc, main_pc, sent, compressed>>
    /\ UNCHANGED <<filter_vars, probe>>

\* rx.blocking_recv() returns None: the channel is empty and the sender dropped
WriterClosed ==
    /\ writer_pc = "recv"
    /\ channel = <<>>
    /\ tx_dropped
    /\ writer_pc' = "flush"
    /\ UNCHANGED <<repos, fetching, channel, tx_dropped, temp_buffer, count,
                   lyrics_db, main_pc, sent, batches, compressed>>
    /\ UNCHANGED <<filter_vars, probe>>

\* the writer returning without the transaction of the records left
WriterFinish_no_flush ==
    /\ writer_pc = "flush"
    /\ temp_buffer' = <<>>
    /\ writer_pc' = "done"
    /\ UNCHANGED <<repos, fetching, channel, tx_dropped, count, lyrics_db, main_pc,
                   sent, batches, compressed>>
    /\ UNCHANGED <<filter_vars, probe>>

\* after the loop: the transaction of the records left in the buffer, VACUUM,
\* and the closure returns, which drops rx and temp_buffer
WriterFinish ==
    /\ writer_pc = "flush"
    /\ IF temp_buffer # <<>>
       THEN /\ lyrics_db' = lyrics_db \cup Range(temp_buffer)
            /\ batches' = Append(batches, Len(temp_buffer))
       ELSE UNCHANGED <<lyrics_db, batches>>
    /\ temp_buffer' = <<>>
    /\ writer_pc' = "done"
    /\ UNCHANGED <<repos, fetching, channel, tx_dropped, count, main_pc, sent,
                   compressed>>
    /\ UNCHANGED <<filter_vars, probe>>

\* db_thread.await returns
Join ==
    /\ main_pc = "await"
    /\ writer_pc = "done"
    /\ main_pc' = "compress"
    /\ UNCHANGED <<repos, fetching, channel, tx_dropped, temp_buffer, count,
                   lyrics_db, writer_pc, sent, batches, compressed>>
    /\ UNCHANGED <<filter_vars, probe>>

\* File::open(DB_NAME), read_to_end and the Brotli compression of the bytes
Compress ==
    /\ main_pc = "compress"
    /\ compressed' = Some(lyrics_db)
    /\ main_pc' = "done"
    /\ UNCHANGED <<repos, fetching, channel, tx_dropped, temp_buffer, count,
                   lyrics_db, writer_pc, sent, batches>>
    /\ UNCHANGED <<filter_vars, probe>>

\* the builder starts with no video fetched, or with the writer's buffer at
\* most MaxBefore records short of a batch
BuilderPrior == {0} \cup {BATCH_SIZE - k : k \in 1..MaxBefore}

InitBuilder == InitFilter /\ probe = Unprobed(<<>>) /\ \E p \in BuilderPrior : BuilderAt(p)

NextBuilder ==
    \/ StartFetch
    \/ \E video_id \in fetching : FetchFails(video_id)
    \/ \E video_id \in fetching : Send(video_id)
    \/ DropTx
    \/ WriterRecv
    \/ WriterClosed
    \/ WriterFinish
    \/ Join
    \/ Compress

\* the writer runs on a thread of its own (spawn_blocking): it is scheduled
\* whatever main and the tasks do
SpecBuilder ==
    /\ InitBuilder
    /\ [][NextBuilder]_vars
    /\ WF_vars(WriterRecv)
    /\ WF_vars(WriterClosed)
    /\ WF_vars(WriterFinish)

----------------------------------------------------------------------------
(* C21: in the builder every record whose send succeeded is committed by   *)
(* the writer, in transactions of 1000 rows and a last one of the rows     *)
(* left when the channel has closed; the writer ends once the tasks have   *)
(* finished and the sender is dropped; the compression reads the file      *)
(* after the writer has ended                                              *)

\* a sent record is in the channel, in the writer's buffer or committed
SentAccountedFor ==
    writer_pc # "done" => sent = Range(channel) \cup Range(temp_buffer) \cup lyrics_db

\* the transactions of the loop have 1000 rows; the last one, after the
\* loop, has the rows left, fewer than 1000
BatchesOfThousand ==
    /\ writer_pc = "recv" => \A k \in 1..Len(batches) : batches[k] = 1000
    /\ \A k \in 1..Len(batches) - 1 : batches[k] = 1000
    /\ \A k \in 1..Len(batches) : batches[k] >= 1 /\ batches[k] <= 1000

\* the writer has ended: the sender was dropped after the last task, and
\* what was sent is committed
WriterEnded ==
    writer_pc = "done" =>
        /\ tx_dropped /\ repos = <<>> /\ fetching = {} /\ channel = <<>>
        /\ lyrics_db = sent

\* the compression has read the file: the writer had ended, and the file
\* had every record sent
CompressedAfterWriter ==
    (main_pc \in {"compress", "done"} \/ compressed # None) =>
        /\ writer_pc = "done"
        /\ compressed # None => compressed = Some(lyrics_db) /\ compressed = Some(sent)

====
